---- MODULE Spec2Model ----
(***************************************************************************)
(* A model of src/plotter.py: the DataHandler class (station lookup,       *)
(* download, clean, merge, type coercion), main() and the __main__ block.  *)
(*                                                                         *)
(* Text is modelled as a sequence of tokens.  A station name or a query is *)
(* a sequence of one-character tokens; a line of a CSV file is a sequence  *)
(* of cell tokens with the separator tokens ";" and "," and the quote      *)
(* token between them, so that pandas' read_csv (which splits a line on    *)
(* one separator) and to_csv (which joins with ",") are computed, not      *)
(* assumed.  A file is a sequence of lines.                                *)
(***************************************************************************)
EXTENDS Integers, Sequences, FiniteSets, TLC

VARIABLES
    argv,         \* the command line after the script name: <<>> or <<query>>
    stations_df,  \* DataHandler.stations_df: rows [Namn, Id] in table order
    station,      \* DataHandler.station
    station_id,   \* DataHandler.station_id
    ret,          \* what check_id returned: "none" before the call, "True", "False"
    pc,           \* where the process (or the object under test) is
    i,            \* position of main's loop over PARAMS (1-based)
    fs,           \* the working directory: file name -> file (a sequence of lines)
    lenient,      \* the installed pandas ignores out-of-bounds usecols (pandas < 2.0)
    stdout,       \* the messages printed so far in this run
    raised,       \* the uncaught exception that ended the run, or "none"
    raisedBy,     \* the method that raised it, or "none"
    exitStatus,   \* the exit status of the process, or -1 while it runs
    httpGets,     \* urlopen calls made in this run
    fileOps,      \* data-file opens (read or write) made in this run
    failed,       \* positions in PARAMS whose download_data failed in this run
    missing,      \* position whose download failed leaving no file, or 0
    cleaned,      \* positions in PARAMS whose clean_file completed in this run
    mergeRead,    \* positions in PARAMS whose file merge_files read in this run
    wroteMerged,  \* merge_files wrote the merged file in this run
    presentCalls, \* DataPlotter objects built in this run
    run,          \* number of the current run of the program
    before,       \* the file under test as it was before the last call (clean / dtype tests)
    calls         \* number of calls made on the file under test

vars == <<argv, stations_df, station, station_id, ret, pc, i, fs, lenient, stdout,
          raised, raisedBy, exitStatus, httpGets, fileOps, failed, missing, cleaned,
          mergeRead, wroteMerged, presentCalls, run, before, calls>>

(***************************************************************************)
(* Bounds of the model.                                                    *)
(***************************************************************************)
MaxNameLen == 2    \* longest station name and longest query, in characters
MaxStations == 2   \* most rows of the station table
MaxRows == 8       \* most data rows of a payload in the clean_file tests
MaxKeys == 2       \* number of (date, time) pairs in the merge tests
MaxRuns == 2       \* runs of the program over one working directory

(***************************************************************************)
(* Generic helpers.                                                        *)
(***************************************************************************)
SeqsUpTo(S, n) == UNION {[1..k -> S] : k \in 0..n}

Range(s) == {s[k] : k \in DOMAIN s}

RECURSIVE Flatten(_)
Flatten(ss) == IF ss = <<>> THEN <<>> ELSE Head(ss) \o Flatten(Tail(ss))

(***************************************************************************)
(* Station names: characters, str.lower and str.startswith.                *)
(***************************************************************************)
Chars == {"a", "A", "b"}

LowerChar(c) == CASE c = "A" -> "a" [] c = "B" -> "b" [] OTHER -> c

\* str.lower()
Lower(s) == [k \in DOMAIN s |-> LowerChar(s[k])]

\* str.startswith(prefix)
StartsWith(s, prefix) ==
    /\ Len(prefix) <= Len(s)
    /\ SubSeq(s, 1, Len(prefix)) = prefix

Names == SeqsUpTo(Chars, MaxNameLen) \ {<<>>}
Queries == SeqsUpTo(Chars, MaxNameLen)

\* The tables the lookup file can hold: any names, in any order, repeated or
\* not; the Id column is the row number, so that every row has its own Id.
Directories ==
    { [k \in DOMAIN ns |-> [Namn |-> ns[k], Id |-> k]] : ns \in SeqsUpTo(Names, MaxStations) }

(***************************************************************************)
(* DataHandler.check_id                                                    *)
(***************************************************************************)
\* The rows selected by the boolean mask of the first try (line 48).
ExactMaskNoLower(df, st) == {k \in DOMAIN df : df[k].Namn = st}
ExactMask(df, st) == {k \in DOMAIN df : Lower(df[k].Namn) = st}

\* The rows selected by the boolean mask of the second try (line 54).
PrefixMaskLast(df, st) ==
    LET m == {k \in DOMAIN df : StartsWith(Lower(df[k].Namn), st)}
    IN  {k \in m : \A j \in m : j <= k}
PrefixMask(df, st) == {k \in DOMAIN df : StartsWith(Lower(df[k].Namn), st)}

\* .iloc[0] of the masked Id column: the first selected row in table order.
\* On an empty selection it raises IndexError, modelled as 0 (no row).
Iloc0(m) == IF m = {} THEN 0 ELSE CHOOSE k \in m : \A j \in m : k <= j

NotFoundMsg == "The station was not found. Are you sure you spelled it correctly?"

\* check_id: [ret, station_id, out]; every exception is caught by the two
\* bare excepts, so the method itself never raises.
check_id(df, st, old_id) ==
    LET e == Iloc0(ExactMask(df, st))
        p == Iloc0(PrefixMask(df, st))
    IN  IF e # 0 THEN [ret |-> TRUE, station_id |-> df[e].Id, out |-> <<>>]
        ELSE IF p # 0 THEN [ret |-> TRUE, station_id |-> df[p].Id, out |-> <<>>]
        ELSE [ret |-> FALSE, station_id |-> old_id, out |-> <<NotFoundMsg>>]

(***************************************************************************)
(* Configuration (settings.py): the parameter list and the index columns.  *)
(***************************************************************************)
PARAMS == << [num |-> 1, name |-> "Lufttemperatur"],
             [num |-> 6, name |-> "Relativ Luftfuktighet"] >>

INDEX == << "Datum", "Tid (UTC)" >>

\* DataHandler.params and DataHandler.param_nums (lines 33-34)
params == [k \in DOMAIN PARAMS |-> PARAMS[k].name]
param_nums == [k \in DOMAIN PARAMS |-> PARAMS[k].num]

(***************************************************************************)
(* CSV text.  A cell is a sequence of tokens (<<>> is the empty cell); a   *)
(* line is its cells' tokens with separator tokens between them.           *)
(***************************************************************************)
SEMI == ";"
COMMA == ","
QUOTE == "\""

\* What read_csv turns into NaN by default (a selection of pandas' list).
NaTexts == {"NA", "NaN", "nan", "null", "N/A"}

\* NaN in a data frame; to_csv writes it as the empty cell.
NaN == <<>>

\* The texts float() accepts, among the cell texts of the model.
NumericTexts == {"1.5", "2.5"}

RECURSIVE SplitFrom(_, _, _, _)
SplitFrom(line, sep, cur, inq) ==
    IF line = <<>> THEN <<cur>>
    ELSE LET t == Head(line)
         IN  IF t = QUOTE THEN SplitFrom(Tail(line), sep, cur, ~inq)
             ELSE IF t = sep /\ ~inq
                  THEN <<cur>> \o SplitFrom(Tail(line), sep, <<>>, FALSE)
                  ELSE SplitFrom(Tail(line), sep, Append(cur, t), inq)

\* The cells of one line read with separator sep (quotes honoured).
Split(line, sep) == SplitFrom(line, sep, <<>>, FALSE)

\* to_csv's QUOTE_MINIMAL: a cell holding the separator is written quoted.
WriteCell(c) == IF COMMA \in Range(c) THEN <<QUOTE>> \o c \o <<QUOTE>> ELSE c

RECURSIVE Join(_)
Join(cells) ==
    IF cells = <<>> THEN <<>>
    ELSE IF Len(cells) = 1 THEN WriteCell(cells[1])
    ELSE WriteCell(cells[1]) \o <<COMMA>> \o Join(Tail(cells))

\* read_csv skips blank lines (skip_blank_lines=True).
NonBlank(lines) == SelectSeq(lines, LAMBDA l : l # <<>>)

\* A data cell as read_csv stores it.
NaCell(c) == IF Len(c) = 1 /\ c[1] \in NaTexts THEN NaN ELSE c

\* A data row brought to the header's width: missing trailing cells are NaN.
Pad(cells, n) == [k \in 1..n |-> IF k <= Len(cells) THEN NaCell(cells[k]) ELSE NaN]

FirstN(s, n) == SubSeq(s, 1, IF Len(s) < n THEN Len(s) ELSE n)

\* pandas.read_csv(path, header=header, sep=sep, usecols=[0,1,2,3] when
\* usecols, index_col=0 when index_col).  Result: [err, cols, rows]; err
\* names the exception raised, "none" when the call returns a data frame.
\* A usecols index beyond the columns of the file is ignored by the C parser
\* of pandas before 2.0 (len) and raises ParserError from 2.0 on; which
\* pandas is installed is fixed per working directory, not by the code.
\* Not modelled: the dtype pandas infers for a column, the renaming of
\* empty or repeated header cells (such columns are dropped by usecols or
\* index_col before anything reads them).
ReadCsv(fsys, path, sep, header, usecols, index_col, len) ==
    LET Err(e) == [err |-> e, cols |-> <<>>, rows |-> <<>>]
    IN
    IF path \notin DOMAIN fsys THEN Err("FileNotFoundError")
    ELSE
    LET lines == NonBlank(fsys[path]) IN
    IF lines = <<>> THEN Err("EmptyDataError")
    ELSE IF Len(lines) <= header THEN Err("ParserError")
    ELSE
    LET hdr  == Split(lines[header + 1], sep)
        n    == Len(hdr)
        body == [k \in 1..(Len(lines) - header - 1) |-> Split(lines[header + 1 + k], sep)]
        keep == IF usecols THEN (IF n < 4 THEN n ELSE 4) ELSE n
        from == IF index_col THEN 2 ELSE 1
    IN
    IF \E k \in DOMAIN body : Len(body[k]) > n THEN Err("ParserError")
    ELSE IF usecols /\ n < 4 /\ ~len THEN Err("ParserError")
    ELSE [err  |-> "none",
          cols |-> SubSeq(hdr, from, keep),
          rows |-> [k \in DOMAIN body |-> SubSeq(Pad(body[k], n), from, keep)]]

\* DataFrame.to_csv(path, index=index): the lines written.  The index of
\* every frame written here is the default RangeIndex 0..n-1.
ToCsv(df, index) ==
    LET lead(c) == IF index THEN <<c>> ELSE <<>>
    IN  << Join(lead(<<>>) \o df.cols) >>
        \o [k \in DOMAIN df.rows |-> Join(lead(<<ToString(k - 1)>>) \o df.rows[k])]

\* File names (lines 68, 77, 88 and 92, 100): a parameter's file, the merged file.
FileName(sid, pnum) == <<sid, pnum>>
MergedName(sid) == <<sid, 0>>

Put(fsys, path, file) == [p \in DOMAIN fsys \cup {path} |-> IF p = path THEN file ELSE fsys[p]]

(***************************************************************************)
(* DataHandler.clean_file                                                  *)
(***************************************************************************)
DateLabel == <<"Datum">>

HeadMsg == "df.head()"

\* Result: [err, fs, out]; err names the exception raised, "none" on
\* return; out is what print(df.head()) printed, as a mark.
clean_file(fsys, sid, pnum, len) ==
    LET path == FileName(sid, pnum)
        r7   == ReadCsv(fsys, path, SEMI, 7, TRUE, FALSE, len)
        r6   == ReadCsv(fsys, path, SEMI, 6, TRUE, FALSE, len)
    IN  IF r7.err # "none" THEN [err |-> r7.err, fs |-> fsys, out |-> <<>>]
        ELSE IF r7.cols[1] = DateLabel
             THEN [err |-> "none", fs |-> Put(fsys, path, ToCsv(r7, TRUE)), out |-> <<HeadMsg>>]
        ELSE IF r6.err # "none" THEN [err |-> r6.err, fs |-> fsys, out |-> <<HeadMsg>>]
        ELSE [err |-> "none", fs |-> Put(fsys, path, ToCsv(r6, TRUE)), out |-> <<HeadMsg>>]

(***************************************************************************)
(* DataHandler.merge_files                                                 *)
(***************************************************************************)
ColIndex(cols, c) == CHOOSE k \in DOMAIN cols : cols[k] = c /\ \A j \in 1..(k - 1) : cols[j] # c

\* The columns pd.merge joins on when no "on" is given: all common ones.
CommonCols(l, r) == SelectSeq(l.cols, LAMBDA c : c \in Range(r.cols))

\* pd.merge(l, r): inner join on the common columns, left order kept.
pd_merge(l, r) ==
    LET on     == CommonCols(l, r)
        rest   == SelectSeq(r.cols, LAMBDA c : c \notin Range(on))
        match(a, b) == \A k \in DOMAIN on :
                           a[ColIndex(l.cols, on[k])] = b[ColIndex(r.cols, on[k])]
        extra(b) == [k \in DOMAIN rest |-> b[ColIndex(r.cols, rest[k])]]
        joined(a) == [k \in DOMAIN SelectSeq(r.rows, LAMBDA b : match(a, b)) |->
                          a \o extra(SelectSeq(r.rows, LAMBDA b : match(a, b))[k])]
    IN  IF on = <<>> THEN [err |-> "MergeError", cols |-> <<>>, rows |-> <<>>]
        ELSE [err  |-> "none",
              cols |-> l.cols \o rest,
              rows |-> Flatten([k \in DOMAIN l.rows |-> joined(l.rows[k])])]

RECURSIVE MergeFrom(_, _)
MergeFrom(file1, file_list) ==
    IF file_list = <<>> \/ file1.err # "none" THEN file1
    ELSE MergeFrom(pd_merge(file1, Head(file_list)), Tail(file_list))

\* Result: [err, fs, read]; read is how many of the files were opened.
merge_files(fsys, sid, len) ==
    LET file_list == [k \in DOMAIN param_nums |->
                         ReadCsv(fsys, FileName(sid, param_nums[k]), COMMA, 0, FALSE, TRUE, len)]
        bad    == {k \in DOMAIN file_list : file_list[k].err # "none"}
        first  == Iloc0(bad)
        merged == MergeFrom(file_list[1], Tail(file_list))
    IN  IF first # 0
        THEN [err |-> file_list[first].err, fs |-> fsys, read |-> first]
        ELSE IF merged.err # "none"
        THEN [err |-> merged.err, fs |-> fsys, read |-> Len(file_list)]
        ELSE [err |-> "none", fs |-> Put(fsys, MergedName(sid), ToCsv(merged, FALSE)),
              read |-> Len(file_list)]

(***************************************************************************)
(* DataHandler.change_dtype                                                *)
(***************************************************************************)
DateTab == << "2019-01-01", "2019-01-02", "2019-01-03", "2019-01-04", "2019-01-05",
              "2019-01-06", "2019-01-07", "2019-01-08", "2019-01-09", "2019-01-10",
              "2019-01-11", "2019-01-12" >>

\* pd.to_datetime accepts NaN (NaT) and a text that is a date.
IsDate(c) == c = NaN \/ (Len(c) = 1 /\ c[1] \in Range(DateTab))

\* pd.to_numeric (errors='raise') accepts NaN and a text that is a number.
IsNumericCoerce(c) == TRUE
IsNumeric(c) == c = NaN \/ (Len(c) = 1 /\ c[1] \in NumericTexts)

Column(df, c) == [k \in DOMAIN df.rows |-> df.rows[k][ColIndex(df.cols, c)]]

change_dtype(fsys, sid, len) ==
    LET path == MergedName(sid)
        df   == ReadCsv(fsys, path, COMMA, 0, FALSE, FALSE, len)
        Raise(e) == [err |-> e, fs |-> fsys]
    IN  IF df.err # "none" THEN Raise(df.err)
        ELSE IF <<INDEX[1]>> \notin Range(df.cols) THEN Raise("KeyError")
        ELSE IF \E c \in Range(Column(df, <<INDEX[1]>>)) : ~IsDate(c) THEN Raise("ValueError")
        ELSE IF \E k \in DOMAIN params : <<params[k]>> \notin Range(df.cols) THEN Raise("KeyError")
        ELSE IF \E k \in DOMAIN params : \E c \in Range(Column(df, <<params[k]>>)) : ~IsNumeric(c)
             THEN Raise("ValueError")
        ELSE [err |-> "none", fs |-> Put(fsys, path, ToCsv(df, TRUE))]

(***************************************************************************)
(* The payload of the remote service: a preamble of 6 or 7 non-blank       *)
(* lines (with blank lines between its blocks), the column header, and     *)
(* the data rows, semicolon separated, six fields wide.                    *)
(***************************************************************************)
RECURSIVE JoinSemi(_)
JoinSemi(cells) ==
    IF cells = <<>> THEN <<>>
    ELSE IF Len(cells) = 1 THEN cells[1]
    ELSE cells[1] \o <<SEMI>> \o JoinSemi(Tail(cells))

\* A cell from its text: the empty text is the empty cell.
Cell(text) == IF text = "" THEN <<>> ELSE <<text>>

RawLine(texts) == JoinSemi([k \in DOMAIN texts |-> Cell(texts[k])])

Preamble(off, name) ==
    << RawLine(<<"Stationsnamn", "Stationsnummer", "Stationsnat", "Mathojd">>),
       RawLine(<<"Stockholm", "98210", "SMHIs stationsnat", "2.0">>),
       <<>>,
       RawLine(<<"Parameternamn", "Beskrivning", "Enhet">>),
       RawLine(<<name, "momentanvarde", "enhet">>),
       <<>>,
       RawLine(<<"Tidsperiod (fr.o.m)", "Tidsperiod (t.o.m)", "Hojd", "Latitud", "Longitud">>),
       RawLine(<<"2018-09-01 00:00:00", "2019-01-12 00:00:00", "44.0", "59.3", "18.0">>) >>
    \o (IF off = 7
        THEN <<RawLine(<<"2019-01-12 00:00:01", "2019-01-13 00:00:00", "44.0", "59.3", "18.0">>)>>
        ELSE <<>>)
    \o << <<>> >>

HeaderLine(name) == RawLine(<<"Datum", "Tid (UTC)", name, "Kvalitet", "", "Tidsutsnitt:">>)

\* rows: a sequence of [d, t, v, q] texts.
Payload(off, name, rows) ==
    Preamble(off, name) \o <<HeaderLine(name)>>
    \o [k \in DOMAIN rows |->
           RawLine(<<rows[k].d, rows[k].t, rows[k].v, rows[k].q, "", "">>)]

Offsets == {6, 7}
Times == << "00:00:00", "12:00:00" >>
Flags == {"G", "Y"}

\* n rows on n different dates, all with value v and flag G.
GenRows(n, v) == [k \in 1..n |-> [d |-> DateTab[k], t |-> Times[1], v |-> v, q |-> "G"]]

\* The k-th (date, time) pair of the merge tests.
KeyOf(k) == [d |-> DateTab[(k + 1) \div 2], t |-> Times[2 - (k % 2)]]

\* The row sequences over the keys 1..MaxKeys: each key absent, or present
\* once with a value of vals and a flag of flags; rows in key order.
RowChoices(vals, flags) ==
    LET opts == {[on |-> FALSE, v |-> "", q |-> "G"]}
                \cup {[on |-> TRUE, v |-> v, q |-> q] : v \in vals, q \in flags}
        pick(f) == SelectSeq([k \in 1..MaxKeys |->
                                 [d |-> KeyOf(k).d, t |-> KeyOf(k).t, v |-> f[k].v,
                                  q |-> f[k].q, on |-> f[k].on]],
                             LAMBDA r : r.on)
    IN  {pick(f) : f \in [1..MaxKeys -> opts]}

\* The value texts of the two parameters in the merge and coercion tests:
\* numbers, the empty text, a placeholder pandas reads as NaN, another one.
ValueTexts == << {"1.5", "", "x"}, {"2.5", "NA"} >>

(***************************************************************************)
(* DataHandler.__init__ and DataHandler.download_data                      *)
(***************************************************************************)
\* self.station of a new DataHandler (line 31).
InitStation(query) == Lower(query)

DownloadMsg == "Couldn't download data."

\* How a download can go: urlopen raises (HTTPError, URLError); urlopen
\* returns and response.read() raises after open(..., 'wb') has created or
\* truncated the file; or the body arrives whole.
Outcomes(bodies) ==
    {[kind |-> "urlopen_raises", body |-> <<>>], [kind |-> "read_raises", body |-> <<>>]}
    \cup {[kind |-> "ok", body |-> b] : b \in bodies}

\* Result: [fs, out, ok]; the bare except swallows every exception.
download_data(fsys, sid, pnum, outcome) ==
    LET path == FileName(sid, pnum)
    IN  CASE outcome.kind = "urlopen_raises" ->
                [fs |-> fsys, out |-> <<DownloadMsg>>, ok |-> FALSE]
          [] outcome.kind = "read_raises" ->
                [fs |-> Put(fsys, path, <<>>), out |-> <<DownloadMsg>>, ok |-> FALSE]
          [] OTHER ->
                [fs |-> Put(fsys, path, outcome.body), out |-> <<>>, ok |-> TRUE]

(***************************************************************************)
(* The __main__ block and main()                                           *)
(***************************************************************************)
MissingArgMsg == "Missing required argument. You must provide a city or weather station name."

\* The exit status of sys.exit() called without an argument (line 344).
SysExitStatus == 0
\* The exit status of a run that ends normally, and of one ended by an
\* uncaught exception.
StatusOk == 0
StatusTraceback == 1

\* check_id's return value, as text.
RetText(b) == IF b THEN "True" ELSE "False"

\* main's branch on check_id's result (line 313).
AfterCheckIdAlways(r) == "download"
AfterCheckId(r) == IF r THEN "download" ELSE "done"

\* What the run does after clean_file raised err, or returned ("none").
AfterCleanSwallow(err) == "continue"
AfterClean(err) == IF err = "none" THEN "continue" ELSE "crashed"

\* The bodies the service sends for the k-th parameter in the runs of main.
MainBodies(k) ==
    {Payload(off, params[k], GenRows(n, "1.5")) : off \in Offsets, n \in {0, MaxRows}}

MainDirectories == {d \in Directories : Len(d) <= 1}
MainArgs == {<<>>} \cup {<<q>> : q \in {<<"a">>, <<"A">>, <<"b">>}}

\* The state of a process that has not run a statement yet.
Fresh ==
    /\ station = <<>>
    /\ ret = "none"
    /\ stdout = <<>>
    /\ raised = "none"
    /\ raisedBy = "none"
    /\ exitStatus = -1
    /\ httpGets = 0
    /\ fileOps = 0
    /\ failed = {}
    /\ missing = 0
    /\ cleaned = {}
    /\ mergeRead = {}
    /\ wroteMerged = FALSE
    /\ presentCalls = 0

InitMain ==
    /\ Fresh
    /\ station_id = 0
    /\ i = 0
    /\ argv \in MainArgs
    /\ stations_df \in MainDirectories
    /\ lenient \in BOOLEAN
    /\ fs = <<>>
    /\ pc = "start"
    /\ run = 1
    /\ before = <<>>
    /\ calls = 0

\* Lines 339-345.
MainBlock ==
    /\ pc = "start"
    /\ IF argv = <<>>
       THEN /\ stdout' = Append(stdout, MissingArgMsg)
            /\ exitStatus' = SysExitStatus
            /\ pc' = "exited"
       ELSE /\ pc' = "main"
            /\ UNCHANGED <<stdout, exitStatus>>
    /\ UNCHANGED <<argv, stations_df, station, station_id, ret, i, fs, lenient, raised,
                   raisedBy, httpGets, fileOps, failed, missing, cleaned, mergeRead,
                   wroteMerged, presentCalls, run, before, calls>>

\* Line 310: get = DataHandler(station).
MainConstruct ==
    /\ pc = "main"
    /\ station' = InitStation(argv[1])
    /\ station_id' = 0
    /\ pc' = "check_id"
    /\ UNCHANGED <<argv, stations_df, ret, i, fs, lenient, stdout, raised, raisedBy,
                   exitStatus, httpGets, fileOps, failed, missing, cleaned, mergeRead,
                   wroteMerged, presentCalls, run, before, calls>>

\* Line 313: if get.check_id(): ...; otherwise main returns.
MainCheckId ==
    /\ pc = "check_id"
    /\ LET r == check_id(stations_df, station, station_id)
       IN  /\ ret' = RetText(r.ret)
           /\ station_id' = r.station_id
           /\ stdout' = stdout \o r.out
           /\ pc' = AfterCheckId(r.ret)
           /\ i' = IF AfterCheckId(r.ret) = "download" THEN 1 ELSE i
           /\ exitStatus' = IF AfterCheckId(r.ret) = "download" THEN exitStatus ELSE StatusOk
    /\ UNCHANGED <<argv, stations_df, station, fs, lenient, raised, raisedBy, httpGets,
                   fileOps, failed, missing, cleaned, mergeRead, wroteMerged,
                   presentCalls, run, before, calls>>

\* Line 317: get.download_data(param_num).
MainDownload ==
    /\ pc = "download"
    /\ \E o \in Outcomes(MainBodies(i)) :
          LET r == download_data(fs, station_id, param_nums[i], o)
          IN  /\ fs' = r.fs
              /\ stdout' = stdout \o r.out
              /\ failed' = IF r.ok THEN failed ELSE failed \cup {i}
              /\ missing' = IF ~r.ok /\ FileName(station_id, param_nums[i]) \notin DOMAIN r.fs
                                /\ missing = 0
                            THEN i ELSE missing
              /\ fileOps' = IF o.kind = "urlopen_raises" THEN fileOps ELSE fileOps + 1
    /\ httpGets' = httpGets + 1
    /\ pc' = "clean"
    /\ UNCHANGED <<argv, stations_df, station, station_id, ret, i, lenient, raised,
                   raisedBy, exitStatus, cleaned, mergeRead, wroteMerged, presentCalls,
                   run, before, calls>>

\* An uncaught exception ends the run with a traceback.
Crash(err, by) ==
    /\ raised' = err
    /\ raisedBy' = by
    /\ exitStatus' = StatusTraceback
    /\ pc' = "crashed"

\* Line 318: get.clean_file(param_num), then the next parameter or the merge.
MainClean ==
    /\ pc = "clean"
    /\ LET r == clean_file(fs, station_id, param_nums[i], lenient)
       IN  /\ fs' = r.fs
           /\ stdout' = stdout \o r.out
           /\ fileOps' = fileOps + 1
           /\ IF AfterClean(r.err) = "crashed"
              THEN /\ Crash(r.err, "clean_file")
                   /\ UNCHANGED <<i, cleaned>>
              ELSE /\ cleaned' = IF r.err = "none" THEN cleaned \cup {i} ELSE cleaned
                   /\ i' = IF i < Len(PARAMS) THEN i + 1 ELSE i
                   /\ pc' = IF i < Len(PARAMS) THEN "download" ELSE "merge"
                   /\ UNCHANGED <<raised, raisedBy, exitStatus>>
    /\ UNCHANGED <<argv, stations_df, station, station_id, ret, lenient, httpGets,
                   failed, missing, mergeRead, wroteMerged, presentCalls, run, before,
                   calls>>

\* Line 319: get.merge_files().
MainMerge ==
    /\ pc = "merge"
    /\ LET r == merge_files(fs, station_id, lenient)
       IN  /\ fs' = r.fs
           /\ mergeRead' = 1..r.read
           /\ fileOps' = fileOps + 1
           /\ IF r.err # "none"
              THEN /\ Crash(r.err, "merge_files")
                   /\ UNCHANGED wroteMerged
              ELSE /\ wroteMerged' = TRUE
                   /\ pc' = "dtype"
                   /\ UNCHANGED <<raised, raisedBy, exitStatus>>
    /\ UNCHANGED <<argv, stations_df, station, station_id, ret, i, lenient, stdout,
                   httpGets, failed, missing, cleaned, presentCalls, run, before, calls>>

\* Line 320: get.change_dtype().
MainDtype ==
    /\ pc = "dtype"
    /\ LET r == change_dtype(fs, station_id, lenient)
       IN  /\ fs' = r.fs
           /\ fileOps' = fileOps + 1
           /\ IF r.err # "none"
              THEN Crash(r.err, "change_dtype")
              ELSE /\ pc' = "plot"
                   /\ UNCHANGED <<raised, raisedBy, exitStatus>>
    /\ UNCHANGED <<argv, stations_df, station, station_id, ret, i, lenient, stdout,
                   httpGets, failed, missing, cleaned, mergeRead, wroteMerged,
                   presentCalls, run, before, calls>>

\* Lines 322-337: one DataPlotter per parameter and the plots (the
\* presentation layer itself is not modelled), then main returns.
MainPresent ==
    /\ pc = "plot"
    /\ presentCalls' = Len(PARAMS)
    /\ fileOps' = fileOps + Len(PARAMS)
    /\ exitStatus' = StatusOk
    /\ pc' = "done"
    /\ UNCHANGED <<argv, stations_df, station, station_id, ret, i, fs, lenient, stdout,
                   raised, raisedBy, httpGets, failed, missing, cleaned, mergeRead,
                   wroteMerged, run, before, calls>>

\* The program is started again in the same working directory.
NextRun ==
    /\ pc \in {"exited", "done", "crashed"}
    /\ run < MaxRuns
    /\ run' = run + 1
    /\ argv' \in MainArgs
    /\ pc' = "start"
    /\ station' = <<>>
    /\ station_id' = 0
    /\ ret' = "none"
    /\ i' = 0
    /\ stdout' = <<>>
    /\ raised' = "none"
    /\ raisedBy' = "none"
    /\ exitStatus' = -1
    /\ httpGets' = 0
    /\ fileOps' = 0
    /\ failed' = {}
    /\ missing' = 0
    /\ cleaned' = {}
    /\ mergeRead' = {}
    /\ wroteMerged' = FALSE
    /\ presentCalls' = 0
    /\ UNCHANGED <<stations_df, fs, lenient, before, calls>>

NextMain ==
    \/ MainBlock
    \/ MainConstruct
    \/ MainCheckId
    \/ MainDownload
    \/ MainClean
    \/ MainMerge
    \/ MainDtype
    \/ MainPresent
    \/ NextRun

SpecMain == InitMain /\ [][NextMain]_vars

(***************************************************************************)
(* Test harness 1: a DataHandler is built for a query over a station table *)
(* and check_id is called on it.                                           *)
(***************************************************************************)
InitResolve ==
    /\ Fresh
    /\ station_id = 0
    /\ i = 0
    /\ argv \in {<<q>> : q \in Queries}
    /\ stations_df \in Directories
    /\ lenient = FALSE
    /\ fs = <<>>
    /\ pc = "t_new"
    /\ run = 1
    /\ before = <<>>
    /\ calls = 0

\* DataHandler(station), lines 29-35.
NewHandler ==
    /\ pc = "t_new"
    /\ station' = InitStation(argv[1])
    /\ station_id' = 0
    /\ pc' = "t_ready"
    /\ UNCHANGED <<argv, stations_df, ret, i, fs, lenient, stdout, raised, raisedBy,
                   exitStatus, httpGets, fileOps, failed, missing, cleaned, mergeRead,
                   wroteMerged, presentCalls, run, before, calls>>

\* check_id(), lines 40-58.
CallCheckId ==
    /\ pc = "t_ready"
    /\ LET r == check_id(stations_df, station, station_id)
       IN  /\ ret' = RetText(r.ret)
           /\ station_id' = r.station_id
           /\ stdout' = stdout \o r.out
    /\ pc' = "t_checked"
    /\ UNCHANGED <<argv, stations_df, station, i, fs, lenient, raised, raisedBy,
                   exitStatus, httpGets, fileOps, failed, missing, cleaned, mergeRead,
                   wroteMerged, presentCalls, run, before, calls>>

NextResolve == NewHandler \/ CallCheckId

SpecResolve == InitResolve /\ [][NextResolve]_vars

(***************************************************************************)
(* Test harness 2: a downloaded file is on disk and clean_file is called   *)
(* on it, and once more if the first call returned.                        *)
(***************************************************************************)
InitClean ==
    /\ Fresh
    /\ station_id = 1
    /\ argv = <<>>
    /\ stations_df = <<>>
    /\ lenient \in BOOLEAN
    /\ \E k \in DOMAIN PARAMS, off \in Offsets, n \in 0..MaxRows, v \in ValueTexts[1] :
          /\ i = k
          /\ fs = Put(<<>>, FileName(1, param_nums[k]),
                      Payload(off, params[k], GenRows(n, v)))
    /\ pc = "t_clean"
    /\ run = 1
    /\ before = <<>>
    /\ calls = 0

\* clean_file(param_num), lines 73-81.
CallCleanFile ==
    /\ pc = "t_clean"
    /\ calls < 2
    /\ raised = "none"
    /\ LET path == FileName(station_id, param_nums[i])
           r == clean_file(fs, station_id, param_nums[i], lenient)
       IN  /\ before' = fs[path]
           /\ fs' = r.fs
           /\ stdout' = stdout \o r.out
           /\ raised' = r.err
           /\ raisedBy' = IF r.err = "none" THEN "none" ELSE "clean_file"
    /\ calls' = calls + 1
    /\ UNCHANGED <<argv, stations_df, station, station_id, ret, pc, i, lenient,
                   exitStatus, httpGets, fileOps, failed, missing, cleaned, mergeRead,
                   wroteMerged, presentCalls, run>>

NextClean == CallCleanFile

SpecClean == InitClean /\ [][NextClean]_vars

(***************************************************************************)
(* Test harness 3: the downloaded files of all parameters are on disk;     *)
(* each is cleaned, then merge_files and change_dtype are called.          *)
(***************************************************************************)
InitNormalize ==
    /\ Fresh
    /\ station_id = 1
    /\ i = 1
    /\ argv = <<>>
    /\ stations_df = <<>>
    /\ lenient \in BOOLEAN
    /\ \E off \in Offsets,
          r1 \in RowChoices(ValueTexts[1], {"G"}), r2 \in RowChoices(ValueTexts[2], Flags) :
          fs = Put(Put(<<>>, FileName(1, param_nums[1]), Payload(off, params[1], r1)),
                   FileName(1, param_nums[2]), Payload(off, params[2], r2))
    /\ pc = "n_clean"
    /\ run = 1
    /\ before = <<>>
    /\ calls = 0

NormClean ==
    /\ pc = "n_clean"
    /\ LET r == clean_file(fs, station_id, param_nums[i], lenient)
       IN  /\ fs' = r.fs
           /\ stdout' = stdout \o r.out
           /\ raised' = r.err
           /\ raisedBy' = IF r.err = "none" THEN "none" ELSE "clean_file"
           /\ pc' = IF r.err # "none" THEN "n_raised"
                    ELSE IF i < Len(PARAMS) THEN "n_clean" ELSE "n_merge"
           /\ i' = IF r.err = "none" /\ i < Len(PARAMS) THEN i + 1 ELSE i
    /\ UNCHANGED <<argv, stations_df, station, station_id, ret, lenient,
                   exitStatus, httpGets, fileOps, failed, missing, cleaned, mergeRead,
                   wroteMerged, presentCalls, run, before, calls>>

NormMerge ==
    /\ pc = "n_merge"
    /\ LET r == merge_files(fs, station_id, lenient)
       IN  /\ fs' = r.fs
           /\ raised' = r.err
           /\ raisedBy' = IF r.err = "none" THEN "none" ELSE "merge_files"
           /\ wroteMerged' = (r.err = "none")
           /\ before' = IF r.err = "none" THEN r.fs[MergedName(station_id)] ELSE before
           /\ pc' = IF r.err # "none" THEN "n_raised" ELSE "n_dtype"
    /\ UNCHANGED <<argv, stations_df, station, station_id, ret, i, lenient, stdout,
                   exitStatus, httpGets, fileOps, failed, missing, cleaned, mergeRead,
                   presentCalls, run, calls>>

NormDtype ==
    /\ pc = "n_dtype"
    /\ LET r == change_dtype(fs, station_id, lenient)
       IN  /\ fs' = r.fs
           /\ raised' = r.err
           /\ raisedBy' = IF r.err = "none" THEN "none" ELSE "change_dtype"
    /\ pc' = "n_end"
    /\ UNCHANGED <<argv, stations_df, station, station_id, ret, i, lenient, stdout,
                   exitStatus, httpGets, fileOps, failed, missing, cleaned, mergeRead,
                   wroteMerged, presentCalls, run, before, calls>>

NextNormalize == NormClean \/ NormMerge \/ NormDtype

SpecNormalize == InitNormalize /\ [][NextNormalize]_vars

(***************************************************************************)
(* The vocabulary of the claims, stated apart from the code's operators.   *)
(***************************************************************************)
CasePairs == {{"a", "A"}, {"b", "B"}}

SameIgnoringCase(a, b) ==
    /\ Len(a) = Len(b)
    /\ \A k \in DOMAIN a : a[k] = b[k] \/ {a[k], b[k]} \in CasePairs

PrefixIgnoringCase(q, n) ==
    /\ Len(q) <= Len(n)
    /\ SameIgnoringCase(q, SubSeq(n, 1, Len(q)))

\* The rows whose name is the query in some letter case; those whose name
\* the query is a prefix of; those whose name it is a strict prefix of.
RowsNamed(q) == {k \in DOMAIN stations_df : SameIgnoringCase(q, stations_df[k].Namn)}
RowsStarting(q) == {k \in DOMAIN stations_df : PrefixIgnoringCase(q, stations_df[k].Namn)}
RowsStrictlyStarting(q) == {k \in RowsStarting(q) : Len(q) < Len(stations_df[k].Namn)}

FirstOf(S) == CHOOSE k \in S : \A j \in S : k <= j

Resolved(k) == ret = "True" /\ station_id = stations_df[k].Id

(***************************************************************************)
(* C1                                                                      *)
(***************************************************************************)
\* C1, as claimed: after check_id, for every row of the table whose name is
\* the query in some letter case, check_id returned True and station_id is
\* that row's Id.
C1_AsClaimed ==
    pc = "t_checked" => \A k \in RowsNamed(argv[1]) : Resolved(k)

\* C1, amended: after check_id, if some row's name is the query in some
\* letter case, check_id returned True and station_id is the Id of the first
\* such row in table order (so two queries that differ only in letter case
\* get the same id, and a name listed once gets its own Id).
C1_ExactMatchFirstRow ==
    (pc = "t_checked" /\ RowsNamed(argv[1]) # {}) => Resolved(FirstOf(RowsNamed(argv[1])))

\* A query in another letter case than the one name it matches, which is not
\* in the first row, while another row's name only starts with the query.
C1_Witness ==
    /\ pc = "t_checked"
    /\ Cardinality(RowsNamed(argv[1])) = 1
    /\ \A k \in RowsNamed(argv[1]) : stations_df[k].Namn # argv[1] /\ k > 1 /\ Resolved(k)
    /\ RowsStrictlyStarting(argv[1]) # {}

(***************************************************************************)
(* C2                                                                      *)
(***************************************************************************)
\* C2, as claimed: after check_id, if the query is a strict prefix of the
\* name of exactly one row, station_id is that row's Id; if it is a prefix
\* of the names of several rows, station_id is the Id of the first of them.
C2_AsClaimed ==
    pc = "t_checked" =>
        /\ Cardinality(RowsStrictlyStarting(argv[1])) = 1 =>
               \A k \in RowsStrictlyStarting(argv[1]) : Resolved(k)
        /\ Cardinality(RowsStarting(argv[1])) > 1 =>
               Resolved(FirstOf(RowsStarting(argv[1])))

\* C2, amended: after check_id, if the query is no row's name in any letter
\* case and is a prefix of some row's name, check_id returned True and
\* station_id is the Id of the first row, in table order, whose name starts
\* with the query.
C2_PrefixMatchFirstRow ==
    (pc = "t_checked" /\ RowsNamed(argv[1]) = {} /\ RowsStarting(argv[1]) # {})
        => Resolved(FirstOf(RowsStarting(argv[1])))

\* A query that is nobody's name and a strict prefix of two rows' names.
C2_Witness ==
    /\ pc = "t_checked"
    /\ RowsNamed(argv[1]) = {}
    /\ Cardinality(RowsStrictlyStarting(argv[1])) = 2
    /\ argv[1] # <<>>
    /\ Resolved(1)

(***************************************************************************)
(* C3                                                                      *)
(***************************************************************************)
\* C3: in a run whose query is no row's name and no prefix of a row's name,
\* once check_id has been called it has returned False, nothing was raised,
\* the run has ended, and it made no HTTP GET and opened no data file.
C3_NotFoundEndsRun ==
    (argv # <<>> /\ pc \notin {"start", "main", "check_id"} /\ RowsStarting(argv[1]) = {})
        => /\ ret = "False"
           /\ raised = "none"
           /\ pc = "done"
           /\ httpGets = 0
           /\ fileOps = 0
           /\ NotFoundMsg \in Range(stdout)

\* A second run, over files an earlier run left, that does not find its
\* station in a table that is not empty.
C3_Witness ==
    /\ pc = "done"
    /\ ret = "False"
    /\ stations_df # <<>>
    /\ run = 2
    /\ fs # <<>>

(***************************************************************************)
(* C4                                                                      *)
(***************************************************************************)
\* C4, as claimed: a process started without the station argument has, once
\* past its first statement, printed the diagnostic and ended with a
\* non-zero exit status, without entering main or resolving a station.
C4_AsClaimed ==
    (argv = <<>> /\ pc # "start")
        => /\ pc = "exited"
           /\ MissingArgMsg \in Range(stdout)
           /\ exitStatus # 0
           /\ ret = "none"
           /\ station_id = 0

C8_AsClaimed ==
    (missing # 0 /\ pc = "crashed")
        => /\ raisedBy = "merge_files"
           /\ raised = "FileNotFoundError"
           /\ httpGets = Len(PARAMS)
           /\ ~wroteMerged
           /\ presentCalls = 0

\* C8, amended: when the download of the parameter at position k failed
\* leaving no file, the run is at the clean_file call of that parameter or
\* has been ended by it: k fetches were made, the parameters before k were
\* cleaned and no other, merge_files was not called, this run wrote no
\* merged file and made no presentation call; and once ended, the run was
\* ended by a FileNotFoundError raised by clean_file, with exit status 1.
C8_MissingFileEndsRunInClean ==
    missing # 0 =>
        /\ pc \in {"clean", "crashed"}
        /\ i = missing
        /\ httpGets = missing
        /\ cleaned = 1..(missing - 1)
        /\ mergeRead = {}
        /\ ~wroteMerged
        /\ presentCalls = 0
        /\ pc = "crashed" =>
               /\ raisedBy = "clean_file"
               /\ raised = "FileNotFoundError"
               /\ exitStatus = StatusTraceback

\* The first parameter's download fails with no file on disk and the run
\* has been ended, the second parameter never fetched.
C8_Witness ==
    /\ pc = "crashed"
    /\ missing = 1
    /\ httpGets = 1
    /\ Len(PARAMS) > 1

(***************************************************************************)
(* Reading the files back, for the claims about their content.             *)
(***************************************************************************)
Scratch == <<0, 0>>

\* A cleaned file as merge_files reads it, a merged file as change_dtype does.
AsCleaned(file) == ReadCsv(Put(<<>>, Scratch, file), Scratch, COMMA, 0, FALSE, TRUE, FALSE)
AsMerged(file) == ReadCsv(Put(<<>>, Scratch, file), Scratch, COMMA, 0, FALSE, FALSE, FALSE)

\* The (date, time) pairs of a table that has the two index columns.
KeysOf(df) ==
    {<<df.rows[k][ColIndex(df.cols, <<INDEX[1]>>)], df.rows[k][ColIndex(df.cols, <<INDEX[2]>>)]>> :
        k \in DOMAIN df.rows}

\* The first three columns (date, time, value) of a table, names and rows.
DateTimeValue(df) ==
    [err |-> df.err, cols |-> FirstN(df.cols, 3),
     rows |-> [k \in DOMAIN df.rows |-> FirstN(df.rows[k], 3)]]

\* The header cells and the data rows of a payload, found by the label of
\* its header line; four cells of each.
HeaderAt(lines) == CHOOSE h \in DOMAIN lines : Split(lines[h], SEMI)[1] = DateLabel
PayloadCols(p) == FirstN(Split(NonBlank(p)[HeaderAt(NonBlank(p))], SEMI), 4)
PayloadRows(p) ==
    LET lines == NonBlank(p)
        h == HeaderAt(lines)
    IN  [k \in 1..(Len(lines) - h) |-> FirstN(Split(lines[h + k], SEMI), 4)]

\* The cells of the parameter columns of a merged table.
ParamCells(df) == UNION {Range(Column(df, <<params[k]>>)) : k \in DOMAIN params}

IsNumberText(c) == Len(c) = 1 /\ c[1] \in NumericTexts

(***************************************************************************)
(* C5                                                                      *)
(***************************************************************************)
\* C5, as claimed: once merge_files has written the merged file, its rows
\* hold each (date, time) pair that occurs in every cleaned per-parameter
\* file exactly once, and no other pair.
C5_AsClaimed ==
    pc \in {"n_dtype", "n_end"} =>
        LET m == AsMerged(before)
            inputs == {AsCleaned(fs[FileName(station_id, param_nums[k])]) : k \in DOMAIN param_nums}
        IN  /\ KeysOf(m) = {key \in UNION {KeysOf(f) : f \in inputs} :
                               \A f \in inputs : key \in KeysOf(f)}
            /\ Cardinality(KeysOf(m)) = Len(m.rows)

C9_AsClaimed ==
    (pc = "t_clean" /\ calls = 1) =>
        LET t == AsCleaned(fs[FileName(station_id, param_nums[i])])
        IN  /\ raised = "none"
            /\ t.err = "none"
            /\ t.cols = PayloadCols(before)
            /\ t.cols[1] = DateLabel
            /\ t.rows = PayloadRows(before)

(***************************************************************************)
(* C10                                                                     *)
(***************************************************************************)
\* C10, as claimed: if some parameter cell of the merged file is not a
\* number (a placeholder text, or missing), change_dtype raises and leaves
\* the merged file as merge_files wrote it; and whenever change_dtype
\* completes, every parameter cell of the merged file is a number.
C10_AsClaimed ==
    pc = "n_end" =>
        /\ (\E c \in ParamCells(AsMerged(before)) : ~IsNumberText(c))
               => raised # "none" /\ fs[MergedName(station_id)] = before
        /\ raised = "none"
               => \A c \in ParamCells(AsMerged(fs[MergedName(station_id)])) : IsNumberText(c)

\* C10, amended: if some parameter cell of the merged file holds a text that
\* is not a number, change_dtype raises ValueError and leaves the merged
\* file as merge_files wrote it; otherwise it completes, the missing (empty)
\* cells stay missing, and every parameter cell of the merged file is a
\* number or missing, on the same (date, time) pairs.
C10_TextFailsMissingPasses ==
    pc = "n_end" =>
        IF \E c \in ParamCells(AsMerged(before)) : c # <<>> /\ ~IsNumberText(c)
        THEN /\ raised = "ValueError"
             /\ raisedBy = "change_dtype"
             /\ fs[MergedName(station_id)] = before
        ELSE /\ raised = "none"
             /\ \A c \in ParamCells(AsMerged(fs[MergedName(station_id)])) :
                    c = <<>> \/ IsNumberText(c)
             /\ KeysOf(AsMerged(fs[MergedName(station_id)])) = KeysOf(AsMerged(before))

\* change_dtype has raised on a merged file of two rows, one with a
\* placeholder text and one with a missing value.
C10_Witness ==
    /\ pc = "n_end"
    /\ raised = "ValueError"
    /\ Len(AsMerged(before).rows) = 2
    /\ <<>> \in ParamCells(AsMerged(before))
    /\ fs[MergedName(station_id)] = before

====
